---- MODULE Spec2Model ----
(***************************************************************************)
(* Model of src/otp.js: an HTTP front end that drives one shared browser,  *)
(* keeps a table of sessions (one tab and one browsing context each) and   *)
(* sweeps old sessions.  A request is suspended where the source awaits    *)
(* the browser (a launch, a page or context call).  One action of the      *)
(* model is one such call settling, or a request arriving, followed by all *)
(* the code that then runs before the request is suspended on the browser  *)
(* again: an await of closeSession's own return, or of a promise that is   *)
(* already settled, resumes in the same turn of the event loop and is not  *)
(* a place where another request can run.  Requests are run by the members *)
(* of Procs; a member that has answered is free to run another request.    *)
(*                                                                         *)
(* Time is measured in milliseconds as in the source and kept relative to  *)
(* the present: Date.now() reads 0 and a tick of the clock moves every     *)
(* stored timestamp TickMs into the past.  The clock may run for as long   *)
(* as no stored timestamp is older than MaxTicks ticks.  A tab and its     *)
(* context are created together by one createSession call and carry the   *)
(* same number r: context r, tab r.  The                                   *)
(* number of a context nobody refers to any more is used again, and so is  *)
(* the number of a browser launch; MaxRes and MaxLaunch bound how many     *)
(* exist at once, not how many a run creates.                              *)
(***************************************************************************)
EXTENDS Integers, Sequences, FiniteSets, TLC

\* ---------------------------------------------------------------- bounds
MaxRes == 2
MaxLaunch == 2
MaxTicks == 2

\* ------------------------------------------------------ program constants
SESSION_MAX_AGE_MS == 30 * 60 * 1000
OTP_TTL_MS == 5 * 60 * 1000

\* the clock's granularity: one tick is past the OTP's time to live and
\* within the maximum session age, two ticks are past both
TickMs == 20 * 60 * 1000

\* ------------------------------------------------------------ input sets
Procs == {"h1", "h2"}
SessionIds == {"a", "b"}
Phones == {"0812345678"}
Otps == {"111111", "222222"}

\* a field the request does not carry ("-", undefined) or carries empty
Absent == {"-", ""}

Resources == 1..MaxRes
Launches == 1..MaxLaunch

NoSession == [page |-> 0]
NoContext == [key |-> "-", browser |-> 0]

\* a response: the HTTP status and the fields of the JSON body the claims read
Response(http, success, verified, matched, retry, status) ==
    [http |-> http, success |-> success, verified |-> verified,
     otp_matched |-> matched, retry |-> retry, status |-> status]

NoResult == Response(0, "-", "-", "-", "-", "-")

VARIABLES
    browserPromise,   \* _browserPromise: 0 (null) or the number of a launch
    browserState,     \* launch number -> "none" | "pending" | "open" | "closed"
    contexts,         \* r -> the open context r: [key, browser], or NoContext
    pageOpen,         \* the tabs that are open (page.isClosed() is false)
    userSessions,     \* the session table: id -> session or NoSession
    order,            \* the ids of the table in the Map's (insertion) order
    proc              \* per request handler: position and locals

vars == <<browserPromise, browserState, contexts, pageOpen, userSessions,
          order, proc>>

\* Date.now(), relative to the present
now == 0

Idle == [pc |-> "idle", op |-> "none", sid |-> "-", otp |-> "-", phone |-> "-",
         s |-> 0, ret |-> "-", old |-> 0, sess |-> 0, b |-> 0, r |-> 0,
         now0 |-> 0, cursor |-> 0, exp |-> FALSE, threw |-> FALSE,
         raced |-> FALSE, prior |-> FALSE, result |-> NoResult]

\* sendJSON runs in the turn that produced the result: while a handler is
\* writing its response ("done") nothing else runs
Quiet == \A q \in Procs : proc[q].pc # "done"

\* the routes that take a session id, a phone or an otp
FieldRoutes == {"create", "verify", "getSession", "close"}

\* the second field of a route: phone for create, otp for verify
SecondFields(route) ==
    CASE route = "create" -> Phones \cup Absent
      [] route = "verify" -> Otps \cup Absent
      [] OTHER -> {"-"}

\* a check that looks at the session id only
BadRequestIdOnly(route, id, x) == id \in Absent

\* lines 276, 286, 297, 305, 317: if (!sessionId || !phone), if (!sessionId
\* || !otp), if (!sessionId)
BadRequest(route, id, x) ==
    \/ id \in Absent
    \/ route \in {"create", "verify"} /\ x \in Absent

\* a handler takes a request when it has none
Free(p) == Quiet /\ proc[p].pc = "idle"

\* The workload explored: requests overlap only on the id FirstId and only
\* while the table holds no other id; requests that run one after the
\* other use every id.
FirstId == "a"

Alone(p) == \A q \in Procs \ {p} : proc[q].pc = "idle"

Confined == \A q \in Procs : proc[q].sid \in {"-", FirstId}

MayStart(p, id) ==
    /\ Free(p)
    /\ Alone(p) \/ (id = FirstId /\ Confined
                       /\ \A j \in SessionIds \ {FirstId} : userSessions[j].page = 0)

Has(id) == userSessions[id] # NoSession

ctxOpen == {r \in Resources : contexts[r] # NoContext}

Min(S) == CHOOSE x \in S : \A y \in S : x <= y

\* ------------------------------------------------------------------ Init
Init ==
    /\ browserPromise = 0
    /\ browserState = [b \in Launches |-> "none"]
    /\ contexts = [r \in Resources |-> NoContext]
    /\ pageOpen = {}
    /\ userSessions = [id \in SessionIds |-> NoSession]
    /\ order = <<>>
    /\ proc = [p \in Procs |-> Idle]

\* ------------------------------------------------------------ the clock
Horizon == now - MaxTicks * TickMs

Tick ==
    /\ Quiet
    /\ \A id \in SessionIds :
          Has(id) => userSessions[id].createdAt - TickMs >= Horizon
    /\ \A q \in Procs :
          proc[q].op = "cleanup" => proc[q].now0 - TickMs >= Horizon
    /\ userSessions' = [id \in SessionIds |->
          IF Has(id)
          THEN [userSessions[id] EXCEPT !.createdAt = @ - TickMs,
                                        !.otpExpiresAt = @ - TickMs]
          ELSE NoSession]
    /\ proc' = [q \in Procs |->
          IF proc[q].op = "cleanup"
          THEN [proc[q] EXCEPT !.now0 = @ - TickMs]
          ELSE proc[q]]
    /\ UNCHANGED <<browserPromise, browserState, contexts, pageOpen, order>>

\* ------------------------------------------------------------ responses
\* the route handler answers: a result, or the 500 of a thrown error.  The
\* answering handler keeps what it worked on (sid, otp, the tab r it opened, the
\* session sess it verified, the sweep's now0, the last ret) until the
\* response is written.
Answer(l, result) ==
    [Idle EXCEPT !.pc = "done", !.op = l.op, !.sid = l.sid, !.ret = l.ret,
                 !.otp = l.otp, !.r = l.r, !.sess = l.sess, !.exp = l.exp, !.now0 = l.now0,
                 !.threw = l.threw, !.raced = l.raced,
                 !.prior = l.prior, !.result = result]

Ok200 == Response(200, TRUE, "-", "-", "-", "-")
Error500 == Response(500, FALSE, "-", "-", "-", "-")

\* lines 277, 287, 298, 306, 318: { success: false, error: ... } with 400
Error400 == Response(400, FALSE, "-", "-", "-", "-")

\* lines 370-373: the body of the 404 has the keys error and
\* available_endpoints
NotFound404 == [http |-> 404, error |-> "Not found"]

\* lines 331-336: the body GET /health sends has the keys status, browser,
\* sessions and uptime_s
HealthBody(alive) ==
    [http |-> 200, status |-> "ok", browser |-> alive,
     sessions |-> Cardinality({id \in SessionIds : userSessions[id] # NoSession})]

\* ------------------------------------------------------- the Map
IndexOf(seq, x) == CHOOSE i \in 1..Len(seq) : seq[i] = x

Remove(seq, x) == SelectSeq(seq, LAMBDA y : y # x)

\* a delete that leaves live iterators where they were
CursorKept(cursor, id) == cursor

\* userSessions.delete(id) seen from a live iterator that has passed
\* `cursor` entries: an entry deleted behind the iterator moves it back
CursorAfterDelete(cursor, id) ==
    IF Has(id) /\ IndexOf(order, id) <= cursor THEN cursor - 1 ELSE cursor

\* --------------------------------------------------------- getBrowser
\* a launch number is free when no launch holds it
CanLaunch == \E b \in Launches : browserState[b] = "none"

NextLaunch == CHOOSE b \in Launches :
                 /\ browserState[b] = "none"
                 /\ \A c \in Launches : browserState[c] = "none" => b <= c

\* browserState once handler p forgets browser b: a closed browser nobody
\* else still holds gives its number back
DropBrowser(bs, p, b) ==
    [bs EXCEPT ![b] = IF @ = "closed" /\ \A q \in Procs \ {p} : proc[q].b # b
                      THEN "none" ELSE @]

\* getBrowser(), lines 26-38: launch when the handle is null
HandleAfterGet == IF browserPromise = 0 THEN NextLaunch ELSE browserPromise

StateAfterGet ==
    IF browserPromise = 0
    THEN [browserState EXCEPT ![NextLaunch] = "pending"]
    ELSE browserState

\* getBrowser(), lines 39-41, and the caller's line 78: wait for the
\* handle's promise h; once it has resolved, browser.newContext is called
GetBrowserLocal(l, h, bs) ==
    [l EXCEPT !.b = h, !.ret = "-",
              !.pc = IF bs[h] = "pending" THEN "c_browser" ELSE "c_newContext"]

\* resetBrowser() up to the call it is suspended on: nothing to do when the
\* handle is null, else wait for the promise and call b.close()
ResetBrowserCall(l, h, bs) ==
    IF h = 0
    THEN Answer(l, Ok200)
    ELSE [l EXCEPT !.b = h, !.ret = "-", !.cursor = 0,
                   !.pc = IF bs[h] = "pending" THEN "r_browser" ELSE "r_close"]

\* ------------------------------------------------------- closeSession
\* closeSession(id) for an id the table us holds, up to the close call it
\* is suspended on (po: the open tabs).  `ret` names the caller's code that
\* resumes when closeSession returns.
SuspendClose(l, id, ret, us, po) ==
    [l EXCEPT !.pc = IF us[id].page \in po THEN "cs_page" ELSE "cs_ctx",
              !.s = us[id].page, !.ret = ret, !.sid = id]

\* cleanupOldSessions' loop from the iterator's position: the next entry
\* older than the maximum age is closed; without one the sweep is over
CleanupLoop(l, us, ord, po) ==
    LET old == {i \in (l.cursor + 1)..Len(ord) :
                   l.now0 - us[ord[i]].createdAt > SESSION_MAX_AGE_MS}
    IN IF old = {}
       THEN Answer(l, Ok200)
       ELSE SuspendClose([l EXCEPT !.cursor = Min(old)], ord[Min(old)],
                         "sw_next", us, po)

\* POST /close: the loop over all entries, then resetBrowser()
CloseAllLoop(l, us, ord, po, h, bs) ==
    IF l.cursor < Len(ord)
    THEN SuspendClose([l EXCEPT !.cursor = @ + 1], ord[l.cursor + 1],
                      "ca_next", us, po)
    ELSE ResetBrowserCall(l, h, bs)

\* the caller's code after `await closeSession(...)`, up to its next
\* suspension; found: what closeSession returned in `success`
AfterClose(l, found, us, ord, po, h, bs) ==
    CASE l.ret = "c_closed"  -> GetBrowserLocal(l, h, bs)
      [] l.ret = "v_expired" ->
           Answer(l, Response(200, FALSE, FALSE, FALSE, "-", "expired"))
      [] l.ret = "v_success" ->
           Answer(l, Response(200, TRUE, TRUE, TRUE, "-", "success"))
      [] l.ret = "v_error"   ->
           Answer(l, Response(200, FALSE, FALSE, FALSE, "-", "error"))
      [] l.ret = "x_ret"     -> Answer(l, Response(200, found, "-", "-", "-", "-"))
      [] l.ret = "sw_next"   -> CleanupLoop(l, us, ord, po)
      [] l.ret = "ca_next"   -> CloseAllLoop(l, us, ord, po, h, bs)

\* closeSession(id) called by code other than createSession: not found
\* returns at once, else the call is suspended on a close
CallCloseSession(l, id, ret) ==
    IF Has(id)
    THEN SuspendClose(l, id, ret, userSessions, pageOpen)
    ELSE AfterClose([l EXCEPT !.ret = ret], FALSE, userSessions, order,
                    pageOpen, browserPromise, browserState)

\* a create, verify or close request for id is in flight in handler q
InFlightOn(q, id) ==
    /\ proc[q].op \in {"create", "verify", "close"}
    /\ proc[q].pc \notin {"idle", "done"}
    /\ proc[q].sid = id

\* closeSession's tail, lines 229-231: userSessions.delete(sessionId), the
\* return, and the caller's code that follows (po: the open tabs by then).
\* raced records that a sweep closed the session of a request in flight.
CloseSessionReturn(p, po) ==
    LET id == proc[p].sid
        us == [userSessions EXCEPT ![id] = NoSession]
        ord == Remove(order, id)
        sweep == proc[p].op = "cleanup"
        l == [proc[p] EXCEPT !.s = 0, !.cursor = CursorAfterDelete(@, id),
                !.raced = @ \/ (sweep /\ \E q \in Procs \ {p} : InFlightOn(q, id))]
        get == l.ret = "c_closed"
        h == IF get THEN HandleAfterGet ELSE browserPromise
        bs == IF get THEN StateAfterGet ELSE browserState
    IN /\ (get /\ browserPromise = 0) => CanLaunch
       /\ userSessions' = us
       /\ order' = ord
       /\ browserPromise' = h
       /\ browserState' = bs
       /\ proc' = [q \in Procs |->
             IF q = p
             THEN AfterClose(l, TRUE, us, ord, po, h, bs)
             ELSE [proc[q] EXCEPT !.cursor = CursorAfterDelete(@, id),
                                  !.raced = @ \/ (sweep /\ InFlightOn(q, id))]]

\* await s.page.close() settled (line 224)
CsPageClose(p) ==
    /\ Quiet
    /\ proc[p].pc = "cs_page"
    /\ \/ /\ pageOpen' = pageOpen \ {proc[p].s}
          /\ proc' = [proc EXCEPT ![p].pc = "cs_ctx"]
          /\ UNCHANGED <<contexts, userSessions, order, browserPromise,
                         browserState>>
       \/ /\ CloseSessionReturn(p, pageOpen)   \* it threw: catch, then delete
          /\ UNCHANGED <<contexts, pageOpen>>

\* await s.context.close() settled (line 225); closing a context closes
\* its tab
CsContextClose(p) ==
    /\ Quiet
    /\ proc[p].pc = "cs_ctx"
    /\ \/ /\ contexts' = [contexts EXCEPT ![proc[p].s] = NoContext]
          /\ pageOpen' = pageOpen \ {proc[p].s}
       \/ UNCHANGED <<contexts, pageOpen>>   \* it threw: catch
    /\ CloseSessionReturn(p, pageOpen')

\* ------------------------------------------------- the launch settles
\* chromium.launch() resolves: whoever awaits the handle goes on
LaunchOk(b) ==
    /\ Quiet
    /\ browserState[b] = "pending"
    /\ browserState' = [browserState EXCEPT ![b] = "open"]
    /\ proc' = [q \in Procs |->
          IF proc[q].b # b THEN proc[q]
          ELSE CASE proc[q].pc = "c_browser" -> [proc[q] EXCEPT !.pc = "c_newContext"]
                 [] proc[q].pc = "r_browser" -> [proc[q] EXCEPT !.pc = "r_close"]
                 [] proc[q].pc = "h_browser" -> Answer(proc[q], HealthBody(TRUE))
                 [] OTHER -> proc[q]]
    /\ UNCHANGED <<browserPromise, contexts, pageOpen, userSessions, order>>

\* chromium.launch() rejects: the .catch handler resets the handle and
\* rethrows; createSession throws on, resetBrowser ignores the error
LaunchFail(b) ==
    /\ Quiet
    /\ browserState[b] = "pending"
    /\ browserState' = [browserState EXCEPT ![b] = "none"]
    /\ browserPromise' = 0
    /\ proc' = [q \in Procs |->
          IF proc[q].b # b THEN proc[q]
          ELSE CASE proc[q].pc = "c_browser" -> Answer(proc[q], Error500)
                 [] proc[q].pc = "r_browser" -> Answer(proc[q], Ok200)
                 [] proc[q].pc = "h_browser" -> Answer(proc[q], HealthBody(FALSE))
                 [] OTHER -> proc[q]]
    /\ UNCHANGED <<contexts, pageOpen, userSessions, order>>

\* ------------------------------------------------------ createSession
\* POST /create-session and POST /request-otp with both fields present:
\* createSession up to its first suspension (lines 64-78)
CreateStart(p, id, phone) ==
    /\ ~BadRequest("create", id, phone)
    /\ MayStart(p, id)
    /\ LET l == [Idle EXCEPT !.op = "create", !.sid = id, !.phone = phone] IN
       IF Has(id)
       THEN /\ proc' = [proc EXCEPT ![p] =
                  SuspendClose([l EXCEPT !.old = userSessions[id].page,
                                         !.prior = TRUE], id,
                               "c_closed", userSessions, pageOpen)]
            /\ UNCHANGED <<browserPromise, browserState>>
       ELSE /\ browserPromise = 0 => CanLaunch
            /\ browserPromise' = HandleAfterGet
            /\ browserState' = StateAfterGet
            /\ proc' = [proc EXCEPT ![p] =
                  GetBrowserLocal(l, HandleAfterGet, StateAfterGet)]
    /\ UNCHANGED <<contexts, pageOpen, userSessions, order>>

\* a context number is free when no context holds it and no handler or
\* table entry still refers to the context or tab that had it
Unreferenced(r) ==
    /\ contexts[r] = NoContext
    /\ r \notin pageOpen
    /\ \A id \in SessionIds : userSessions[id].page # r
    /\ \A q \in Procs : r \notin {proc[q].s, proc[q].old, proc[q].sess, proc[q].r}

CanOpen == \E r \in Resources : Unreferenced(r)

NextResource == CHOOSE r \in Resources :
                   /\ Unreferenced(r)
                   /\ \A q \in Resources : Unreferenced(q) => r <= q

\* browser.newContext settled (line 78); a closed browser opens nothing
CreateNewContext(p) ==
    /\ Quiet
    /\ proc[p].pc = "c_newContext"
    /\ \/ /\ browserState[proc[p].b] = "open"
          /\ CanOpen
          /\ contexts' = [contexts EXCEPT ![NextResource] =
                              [key |-> proc[p].sid, browser |-> proc[p].b]]
          /\ proc' = [proc EXCEPT ![p] = [proc[p] EXCEPT !.pc = "c_newPage",
                         !.r = NextResource, !.b = 0, !.old = 0]]
          /\ UNCHANGED browserState
       \/ /\ proc' = [proc EXCEPT ![p] = Answer(proc[p], Error500)]
          /\ browserState' = DropBrowser(browserState, p, proc[p].b)
          /\ UNCHANGED contexts         \* catch: nothing to release
    /\ UNCHANGED <<browserPromise, pageOpen, userSessions, order>>

\* context.newPage settled (line 79)
CreateNewPage(p) ==
    /\ Quiet
    /\ proc[p].pc = "c_newPage"
    /\ \/ /\ proc[p].r \in ctxOpen
          /\ pageOpen' = pageOpen \cup {proc[p].r}
          /\ proc' = [proc EXCEPT ![p].pc = "c_auto"]
       \/ /\ proc' = [proc EXCEPT ![p].pc = "c_err_ctx"]   \* catch: page is null
          /\ UNCHANGED pageOpen
    /\ UNCHANGED <<browserPromise, browserState, contexts, userSessions,
                   order>>

\* (await page.innerText('#mockSmsText')).trim(): the code tab r shows
PageOtp(r) == IF r % 2 = 1 THEN "111111" ELSE "222222"

\* userSessions.set(sessionId, {...}): an existing key keeps its place in
\* the Map's order, a new key goes last
StoreSession(id, r, phone, otp) ==
    /\ userSessions' = [userSessions EXCEPT ![id] =
          [page |-> r, context |-> r, phone |-> phone, otp |-> otp,
           createdAt |-> now, otpExpiresAt |-> now + OTP_TTL_MS,
           status |-> "awaiting_verification"]]
    /\ order' = IF Has(id) THEN order ELSE Append(order, id)

\* a create whose failed page step is answered with no catch block run
CreateAutoNoCatch(p) ==
    /\ Quiet
    /\ proc[p].pc = "c_auto"
    /\ \/ /\ proc[p].r \in pageOpen
          /\ StoreSession(proc[p].sid, proc[p].r, proc[p].phone,
                          PageOtp(proc[p].r))
          /\ proc' = [proc EXCEPT ![p] = Answer(proc[p], Ok200)]
       \/ /\ proc' = [proc EXCEPT ![p] = Answer(proc[p], Error500)]
          /\ UNCHANGED <<userSessions, order>>
    /\ UNCHANGED <<browserPromise, browserState, contexts, pageOpen>>

\* The page steps goto, waitForSelector, fill, click, waitForFunction and
\* innerText (lines 81-97) touch nothing but the call's own tab and each
\* either settles or throws; c_auto stands for being suspended in any of
\* them.  When the last one settles the session is stored and returned.
CreateAuto(p) ==
    /\ Quiet
    /\ proc[p].pc = "c_auto"
    /\ \/ /\ proc[p].r \in pageOpen
          /\ StoreSession(proc[p].sid, proc[p].r, proc[p].phone,
                          PageOtp(proc[p].r))
          /\ proc' = [proc EXCEPT ![p] = Answer(proc[p], Ok200)]
       \/ /\ proc' = [proc EXCEPT ![p].pc =       \* a step threw: catch
                IF proc[p].r \in pageOpen THEN "c_err_page" ELSE "c_err_ctx"]
          /\ UNCHANGED <<userSessions, order>>
    /\ UNCHANGED <<browserPromise, browserState, contexts, pageOpen>>

\* catch: await page.close().catch(() => {}) settled (line 123)
CreateErrPage(p) ==
    /\ Quiet
    /\ proc[p].pc = "c_err_page"
    /\ \/ pageOpen' = pageOpen \ {proc[p].r}
       \/ UNCHANGED pageOpen
    /\ proc' = [proc EXCEPT ![p].pc = "c_err_ctx"]
    /\ UNCHANGED <<browserPromise, browserState, contexts, userSessions,
                   order>>

\* catch: await context.close().catch(() => {}) settled; throw err
\* (lines 124-125)
CreateErrCtx(p) ==
    /\ Quiet
    /\ proc[p].pc = "c_err_ctx"
    /\ \/ /\ contexts' = [contexts EXCEPT ![proc[p].r] = NoContext]
          /\ pageOpen' = pageOpen \ {proc[p].r}
          /\ proc' = [proc EXCEPT ![p] = Answer(proc[p], Error500)]
       \/ /\ UNCHANGED <<contexts, pageOpen>>     \* context.close() threw
          /\ proc' = [proc EXCEPT ![p] =
                Answer([proc[p] EXCEPT !.threw = TRUE], Error500)]
    /\ UNCHANGED <<browserPromise, browserState, userSessions, order>>

\* ---------------------------------------------------- verifySessionOTP
\* an expiry check that looks at the session's age, not at the OTP's
OtpExpiredByAge(s) == now - s.createdAt > SESSION_MAX_AGE_MS

\* line 143: Date.now() > session.otpExpiresAt
OtpExpired(s) == now > s.otpExpiresAt

\* session.status = st, written through verify's reference to the session
\* object: the table shows it while it still holds that object
SetStatus(id, r, st) ==
    IF userSessions[id].page = r /\ r # 0
    THEN [userSessions EXCEPT ![id].status = st]
    ELSE userSessions

\* POST /verify-otp with both fields present: lines 132-160
VerifyStart(p, id, otp) ==
    /\ ~BadRequest("verify", id, otp)
    /\ MayStart(p, id)
    /\ LET s == userSessions[id]
           n == [Idle EXCEPT !.op = "verify", !.sid = id, !.otp = otp]
           \* exp: whether the OTP's expiry timestamp had passed on arrival
           l == [n EXCEPT !.sess = s.page,
                          !.exp = Has(id) /\ now > s.otpExpiresAt]
       IN proc' = [proc EXCEPT ![p] =
            IF ~Has(id)
            THEN Answer(n, Response(200, FALSE, FALSE, FALSE, "-", "notfound"))
            ELSE IF OtpExpired(s) \/ s.page \notin pageOpen
                 THEN SuspendClose(l, id, "v_expired", userSessions, pageOpen)
                 ELSE [l EXCEPT !.pc = "v_auto"]]
    /\ UNCHANGED <<browserPromise, browserState, contexts, pageOpen,
                   userSessions, order>>

\* a verify whose failed page step is answered with no closeSession
VerifyAutoNoClose(p) ==
    /\ Quiet
    /\ proc[p].pc = "v_auto"
    /\ \/ /\ proc[p].sess \in pageOpen
          /\ proc' = [proc EXCEPT ![p].pc = "v_eval"]
       \/ proc' = [proc EXCEPT ![p] =
             Answer([proc[p] EXCEPT !.ret = "v_error"],
                    Response(200, FALSE, FALSE, FALSE, "-", "error"))]
    /\ UNCHANGED <<browserPromise, browserState, contexts, pageOpen,
                   userSessions, order>>

\* v_auto stands for being suspended in waitForSelector, fill, click or
\* waitForTimeout (lines 160-164): the last one settles, or one throws and
\* the catch of line 183 calls closeSession(sessionId)
VerifyAuto(p) ==
    /\ Quiet
    /\ proc[p].pc = "v_auto"
    /\ \/ /\ proc[p].sess \in pageOpen
          /\ proc' = [proc EXCEPT ![p].pc = "v_eval"]
       \/ proc' = [proc EXCEPT ![p] =
                      CallCloseSession(proc[p], proc[p].sid, "v_error")]
    /\ UNCHANGED <<browserPromise, browserState, contexts, pageOpen,
                   userSessions, order>>

\* lines 178-181: step3Visible is false
VerifyMismatch(l) == Answer(l, Response(200, TRUE, FALSE, FALSE, TRUE, "failed"))

\* a verify that answers a match with the session left where it is
VerifyEvalNoClose(p) ==
    /\ Quiet
    /\ proc[p].pc = "v_eval"
    /\ \/ /\ proc[p].sess \in pageOpen
          /\ proc[p].otp = PageOtp(proc[p].sess)
          /\ userSessions' = SetStatus(proc[p].sid, proc[p].sess, "verified")
          /\ proc' = [proc EXCEPT ![p] =
                Answer(proc[p], Response(200, TRUE, TRUE, TRUE, "-", "success"))]
       \/ /\ proc[p].sess \in pageOpen
          /\ userSessions' = SetStatus(proc[p].sid, proc[p].sess,
                                       "awaiting_verification")
          /\ proc' = [proc EXCEPT ![p] = VerifyMismatch(proc[p])]
       \/ /\ userSessions' = SetStatus(proc[p].sid, proc[p].sess,
                                       "awaiting_verification")
          /\ proc' = [proc EXCEPT ![p] =
                         VerifyMismatch([proc[p] EXCEPT !.threw = TRUE])]
    /\ UNCHANGED <<browserPromise, browserState, contexts, pageOpen, order>>

\* page.$eval('#step3', ...).catch(() => false) settled (lines 166-181):
\* the page shows step 3 only for the code it displayed; the flag is
\* hidden, or $eval threw and the .catch made it false (threw)
VerifyEval(p) ==
    /\ Quiet
    /\ proc[p].pc = "v_eval"
    /\ \/ /\ proc[p].sess \in pageOpen
          /\ proc[p].otp = PageOtp(proc[p].sess)
          /\ userSessions' = SetStatus(proc[p].sid, proc[p].sess, "verified")
          /\ proc' = [proc EXCEPT ![p] =
                         CallCloseSession(proc[p], proc[p].sid, "v_success")]
       \/ /\ proc[p].sess \in pageOpen
          /\ userSessions' = SetStatus(proc[p].sid, proc[p].sess,
                                       "awaiting_verification")
          /\ proc' = [proc EXCEPT ![p] = VerifyMismatch(proc[p])]
       \/ /\ userSessions' = SetStatus(proc[p].sid, proc[p].sess,
                                       "awaiting_verification")
          /\ proc' = [proc EXCEPT ![p] =
                         VerifyMismatch([proc[p] EXCEPT !.threw = TRUE])]
    /\ UNCHANGED <<browserPromise, browserState, contexts, pageOpen, order>>

\* ------------------------------------------------ POST /close-session
CloseStart(p, id) ==
    /\ ~BadRequest("close", id, "-")
    /\ MayStart(p, id)
    /\ proc' = [proc EXCEPT ![p] =
          CallCloseSession([Idle EXCEPT !.op = "close", !.sid = id], id, "x_ret")]
    /\ UNCHANGED <<browserPromise, browserState, contexts, pageOpen,
                   userSessions, order>>

\* --------------------------- cleanupOldSessions: the timer, POST /cleanup
CleanupStart(p) ==
    /\ MayStart(p, FirstId)
    /\ proc' = [proc EXCEPT ![p] =
          CleanupLoop([Idle EXCEPT !.op = "cleanup", !.now0 = now],
                      userSessions, order, pageOpen)]
    /\ UNCHANGED <<browserPromise, browserState, contexts, pageOpen,
                   userSessions, order>>

\* ------------------------------------------- POST /close and shutdown
CloseAllStart(p) ==
    /\ MayStart(p, FirstId)
    /\ proc' = [proc EXCEPT ![p] =
          CloseAllLoop([Idle EXCEPT !.op = "closeAll"], userSessions, order,
                       pageOpen, browserPromise, browserState)]
    /\ UNCHANGED <<browserPromise, browserState, contexts, pageOpen,
                   userSessions, order>>

\* resetBrowser: await b.close() settled, then _browserPromise = null
\* (lines 48-50).  Closing a browser closes its contexts and tabs; the
\* browser is taken to be gone also when b.close() throws, which the
\* catch of line 49 ignores.
ResetClose(p) ==
    /\ Quiet
    /\ proc[p].pc = "r_close"
    /\ LET b == proc[p].b
           mine == {r \in Resources : contexts[r].browser = b}
       IN /\ browserState' =
                DropBrowser([browserState EXCEPT ![b] = "closed"], p, b)
          /\ contexts' = [r \in Resources |->
                IF r \in mine THEN NoContext ELSE contexts[r]]
          /\ pageOpen' = pageOpen \ mine
    /\ browserPromise' = 0
    /\ proc' = [proc EXCEPT ![p] = Answer(proc[p], Ok200)]
    /\ UNCHANGED <<userSessions, order>>

\* ---------------------------------------------------------- GET /health
\* lines 323-337: wait for the handle's promise when there is one; a failed
\* launch is caught and leaves browserAlive false
HealthStart(p) ==
    /\ MayStart(p, FirstId)
    /\ LET l == [Idle EXCEPT !.op = "health"]
           h == browserPromise
       IN proc' = [proc EXCEPT ![p] =
            IF h # 0 /\ browserState[h] = "pending"
            THEN [l EXCEPT !.pc = "h_browser", !.b = h]
            ELSE Answer(l, HealthBody(h # 0 /\ browserState[h] = "open"))]
    /\ UNCHANGED <<browserPromise, browserState, contexts, pageOpen,
                   userSessions, order>>

\* ------------------------------------------- requests answered at once
\* lines 276-277, 286-287, 297-298, 305-306, 317-318: a required field is
\* missing, the handler sends the 400 and returns; the record keeps the
\* fields the request came with
MissingField(p) ==
    /\ Free(p) /\ Alone(p)
    /\ \E route \in FieldRoutes, id \in SessionIds \cup Absent :
          \E x \in SecondFields(route) :
             /\ BadRequest(route, id, x)
             /\ proc' = [proc EXCEPT ![p] =
                  [Answer([Idle EXCEPT !.op = "invalid", !.ret = route,
                              !.sid = id,
                              !.otp = IF route = "verify" THEN x ELSE "-"],
                          Error400)
                     EXCEPT !.phone = IF route = "create" THEN x ELSE "-"]]
    /\ UNCHANGED <<browserPromise, browserState, contexts, pageOpen,
                   userSessions, order>>

\* readBody rejects (lines 259-261), the handler throws and the catch of
\* lines 378-381 sends the 500
InvalidBody(p) ==
    /\ Free(p) /\ Alone(p)
    /\ proc' = [proc EXCEPT ![p] =
          Answer([Idle EXCEPT !.op = "invalid", !.ret = "body"], Error500)]
    /\ UNCHANGED <<browserPromise, browserState, contexts, pageOpen,
                   userSessions, order>>

\* lines 368-374: no handler for the method and path
UnknownRoute(p) ==
    /\ Free(p) /\ Alone(p)
    /\ proc' = [proc EXCEPT ![p] =
          Answer([Idle EXCEPT !.op = "unknown"], NotFound404)]
    /\ UNCHANGED <<browserPromise, browserState, contexts, pageOpen,
                   userSessions, order>>

\* GET /get-session with an id: getSession, lines 194-207
GetSessionStart(p, id) ==
    /\ ~BadRequest("getSession", id, "-")
    /\ Free(p) /\ Alone(p)
    /\ proc' = [proc EXCEPT ![p] =
          Answer([Idle EXCEPT !.op = "getSession", !.sid = id],
                 Response(200, Has(id), "-", "-", "-",
                          IF Has(id) THEN userSessions[id].status ELSE "-"))]
    /\ UNCHANGED <<browserPromise, browserState, contexts, pageOpen,
                   userSessions, order>>

\* sendJSON(res, ...): the response is written, the handler is free
Respond(p) ==
    /\ proc[p].pc = "done"
    /\ proc' = [proc EXCEPT ![p] = Idle]
    /\ UNCHANGED <<browserPromise, browserState, contexts, pageOpen,
                   userSessions, order>>

\* ------------------------------------------------------------------ Next
Next ==
    \/ Tick
    \/ \E b \in Launches : LaunchOk(b)
    \/ \E b \in Launches : LaunchFail(b)
    \/ \E p \in Procs : CsPageClose(p)
    \/ \E p \in Procs : CsContextClose(p)
    \/ \E p \in Procs, id \in SessionIds \cup Absent, ph \in Phones \cup Absent :
          CreateStart(p, id, ph)
    \/ \E p \in Procs : CreateNewContext(p)
    \/ \E p \in Procs : CreateNewPage(p)
    \/ \E p \in Procs : CreateAuto(p)
    \/ \E p \in Procs : CreateErrPage(p)
    \/ \E p \in Procs : CreateErrCtx(p)
    \/ \E p \in Procs, id \in SessionIds \cup Absent, otp \in Otps \cup Absent :
          VerifyStart(p, id, otp)
    \/ \E p \in Procs : VerifyAuto(p)
    \/ \E p \in Procs : VerifyEval(p)
    \/ \E p \in Procs, id \in SessionIds \cup Absent : CloseStart(p, id)
    \/ \E p \in Procs : CleanupStart(p)
    \/ \E p \in Procs : CloseAllStart(p)
    \/ \E p \in Procs : ResetClose(p)
    \/ \E p \in Procs : HealthStart(p)
    \/ \E p \in Procs : MissingField(p)
    \/ \E p \in Procs : InvalidBody(p)
    \/ \E p \in Procs : UnknownRoute(p)
    \/ \E p \in Procs, id \in SessionIds \cup Absent : GetSessionStart(p, id)
    \/ \E p \in Procs : Respond(p)

Spec == Init /\ [][Next]_vars

\* ------------------------------------------------------ GET /sessions
\* a listing that leaves out the sessions whose OTP has expired
GetAllSessionsUnexpired ==
    LET live == SelectSeq(order, LAMBDA id : ~OtpExpired(userSessions[id]))
    IN [success |-> TRUE, total |-> Len(live), sessions |-> live]

\* getAllSessions, lines 209-218: one summary per entry, in the Map's order
GetAllSessions ==
    LET sessions == [i \in 1..Len(order) |->
            [session_id |-> order[i],
             phone |-> userSessions[order[i]].phone,
             status |-> userSessions[order[i]].status,
             otp_expired |-> now > userSessions[order[i]].otpExpiresAt]]
    IN [success |-> TRUE, total |-> Len(sessions), sessions |-> sessions]

\* closeSession(id), lines 221-222 and 231: `success` of what a call made
\* now would return
CloseSessionSuccess(id) == userSessions[id] # NoSession

\* =================================================================
\* The claims
\* =================================================================

\* the session object a table entry holds is known by its tab
InTable(r) == \E id \in SessionIds : userSessions[id].page = r

Released(r) == r \notin pageOpen /\ contexts[r] = NoContext

\* C1: when createSession found a prior entry for its id (old), then by the
\* time it has called browser.newContext the prior tab and context are
\* closed and the prior entry is out of the table.
C1_PriorReleasedBeforeNewContext ==
    \A p \in Procs :
        (proc[p].pc = "c_newContext" /\ proc[p].old # 0)
            => (Released(proc[p].old) /\ ~InTable(proc[p].old))

\* the tabs that are open for session key k
LiveTabs(k) == {r \in pageOpen : contexts[r].key = k}

\* C2: in every reachable state there is at most one live (opened and not
\* closed) tab for each session key.
C2_AtMostOneLiveTabPerKey ==
    \A k \in SessionIds : Cardinality(LiveTabs(k)) <= 1

\* C3: whenever an entry leaves the session table (closeSession's delete),
\* its tab and its context are closed at that moment, whatever page.close
\* and context.close did.
C3_ReleasedWhenRemoved ==
    [][\A id \in SessionIds :
          (Has(id) /\ userSessions'[id] = NoSession)
              => (/\ userSessions[id].page \notin pageOpen'
                  /\ contexts'[userSessions[id].page] = NoContext)]_vars

Done(p, op) == proc[p].pc = "done" /\ proc[p].op = op

\* C4 (amended): a verifySessionOTP call that finds the OTP expiry timestamp
\* passed when it checks it is rejected (verified=false, otp_matched=false,
\* whatever the submitted otp) and its session is out of the table when it
\* answers.
C4_ExpiredAtCheckRejected ==
    \A p \in Procs :
        (Done(p, "verify") /\ proc[p].exp)
            => /\ proc[p].result.verified = FALSE
               /\ proc[p].result.otp_matched = FALSE
               /\ ~InTable(proc[p].sess)

\* C4 witness: a verify with the correct code answered "expired"
C4_Witness ==
    \E p \in Procs :
        /\ Done(p, "verify") /\ proc[p].exp
        /\ proc[p].otp = PageOtp(proc[p].sess)
        /\ proc[p].result.status = "expired"

\* C4 as stated: the above, and no verify that completes after the expiry
\* timestamp returns verified=true.
C4_NoVerifiedAfterExpiry ==
    /\ []C4_ExpiredAtCheckRejected
    /\ [][\A p \in Procs :
            (proc[p].op = "verify" /\ proc'[p].pc = "done"
                /\ proc'[p].result.verified = TRUE)
              => ~(/\ userSessions[proc[p].sid].page = proc[p].sess
                   /\ now > userSessions[proc[p].sid].otpExpiresAt)]_vars

\* C5: a verification the page reports as a match answers verified=true
\* with the session out of the table; a mismatch answers verified=false and
\* retry=true and leaves the table, the tabs and the contexts as they were,
\* the session's status being awaiting_verification; a wrong code is never
\* answered verified=true.
C5_SuccessRemovesMismatchKeeps ==
    /\ [](\A p \in Procs :
            (Done(p, "verify") /\ proc[p].result.verified = TRUE)
               => /\ ~InTable(proc[p].sess)
                  /\ proc[p].otp = PageOtp(proc[p].sess))
    /\ [][\A p \in Procs :
            (proc[p].op = "verify" /\ proc[p].pc # "done"
                /\ proc'[p].pc = "done" /\ proc'[p].result.status = "failed")
              => /\ proc'[p].result.verified = FALSE
                 /\ proc'[p].result.retry = TRUE
                 /\ pageOpen' = pageOpen /\ contexts' = contexts
                 /\ order' = order
                 /\ userSessions' = [id \in SessionIds |->
                       IF id = proc[p].sid /\ userSessions[id].page = proc[p].sess
                       THEN [userSessions[id] EXCEPT
                                !.status = "awaiting_verification"]
                       ELSE userSessions[id]]]_vars

\* C5 witness: a wrong code was answered retry=true and the session is in
\* the table with its tab open, awaiting verification
C5_Witness ==
    \E p \in Procs :
        /\ Done(p, "verify") /\ proc[p].result.status = "failed"
        /\ ~proc[p].threw
        /\ proc[p].otp # PageOtp(proc[p].sess)
        /\ userSessions[proc[p].sid].page = proc[p].sess
        /\ proc[p].sess \in pageOpen
        /\ userSessions[proc[p].sid].status = "awaiting_verification"

\* C6: when a run of cleanupOldSessions is over, the table holds no session
\* whose age at the start of the run exceeded the maximum session age.
C6_SweepRemovesOld ==
    \A p \in Procs :
        Done(p, "cleanup")
            => \A id \in SessionIds :
                  Has(id) => ~(proc[p].now0 - userSessions[id].createdAt
                                  > SESSION_MAX_AGE_MS)

\* C6 witness: a sweep that closed at least one session is over
C6_Witness ==
    \E p \in Procs : Done(p, "cleanup") /\ proc[p].ret = "sw_next"

\* C7: when close-all (POST /close) has completed, the session table is
\* empty and the browser handle is null, whatever else is in flight.
C7_CloseAllLeavesNothing ==
    \A p \in Procs :
        Done(p, "closeAll")
            => /\ \A id \in SessionIds : ~Has(id)
               /\ browserPromise = 0

\* C8: the total getAllSessions reports is the number of entries of the
\* table and the number of ids a closeSession call would succeed for; a
\* POST /close-session that answers leaves no entry for its id (a repeated
\* call is not-found), removes at most that one entry and touches no other.
C8_TotalIsClosableCount ==
    /\ [](/\ GetAllSessions.total = Cardinality({id \in SessionIds : Has(id)})
          /\ GetAllSessions.total =
                Cardinality({id \in SessionIds : CloseSessionSuccess(id)})
          /\ \A p \in Procs :
                Done(p, "close") => ~CloseSessionSuccess(proc[p].sid))
    /\ [][\A p \in Procs :
            (proc[p].op = "close" /\ proc'[p].pc = "done")
              => /\ \A id \in SessionIds \ {proc[p].sid} :
                       userSessions'[id] = userSessions[id]
                 /\ Len(order') = IF Has(proc[p].sid) THEN Len(order) - 1
                                  ELSE Len(order)]_vars

\* C8 witness: a close that found its entry has answered and one other entry
\* is still listed
C8_Witness ==
    \E p \in Procs :
        /\ Done(p, "close") /\ proc[p].result.success = TRUE
        /\ GetAllSessions.total = 1

C10_StepFailureRemoves ==
    \A p \in Procs :
        /\ (Done(p, "verify") /\ proc[p].result.status = "error")
              => (~Has(proc[p].sid) /\ ~InTable(proc[p].sess))
        /\ (Done(p, "verify") /\ proc[p].threw)
              => (proc[p].result.status = "failed"
                    /\ proc[p].result.retry = TRUE)

\* C10 witness: a verify whose page step failed answered "error"
C10_Witness ==
    \E p \in Procs :
        /\ Done(p, "verify") /\ proc[p].result.status = "error"
        /\ proc[p].ret = "v_error"

\* C10 as stated: no failed verification step, the read of the step3 flag
\* included, leaves the session in the table.
C10_EveryFailureRemoves ==
    \A p \in Procs :
        (Done(p, "verify") /\ (proc[p].result.status = "error" \/ proc[p].threw))
            => ~InTable(proc[p].sess)

\* C11: every response the server writes is a JSON object with a boolean
\* field named success.
C11_EveryResponseHasSuccess ==
    \A p \in Procs :
        proc[p].pc = "done"
            => /\ "success" \in DOMAIN proc[p].result
               /\ proc[p].result.success \in BOOLEAN

\* every open tab and context belongs to a table entry
NoOrphans == \A r \in pageOpen \cup ctxOpen : InTable(r)

\* every table entry's tab is open
NoDeadEntries == \A id \in SessionIds : Has(id) => userSessions[id].page \in pageOpen

\* C12: when the sweep has closed the session of a create, verify or close
\* request in flight for the same id, then once both have ended the request
\* was answered normally, no tab or context is open without a table entry
\* and no table entry refers to a closed tab.
C12_SweepRaceBenign ==
    \A p \in Procs :
        (/\ proc[p].pc = "done" /\ proc[p].raced
         /\ \A q \in Procs \ {p} : proc[q].pc \in {"idle", "done"})
            => /\ NoOrphans /\ NoDeadEntries
               /\ \A q \in Procs :
                     (proc[q].pc = "done" /\ proc[q].raced)
                        => proc[q].result.http \in {200, 500}

\* the launches in flight
Pending == {b \in Launches : browserState[b] = "pending"}

\* C13: a browser launch starts only in a getBrowser call that finds the
\* handle null, and the handle then refers to it; no launch starts while
\* one is in flight (getBrowser calls made meanwhile share it); when a
\* launch fails the handle is null afterwards, and a getBrowser call that
\* finds the handle null starts a launch.
C13_LazySharedLaunch ==
    /\ [][\A b \in Launches :
            (b \notin Pending /\ browserState'[b] = "pending")
               => /\ browserPromise = 0 /\ browserPromise' = b
                  /\ \E p \in Procs : proc'[p].pc = "c_browser" /\ proc'[p].b = b
                  /\ Pending = {}]_vars
    /\ [][\A b \in Pending :
            browserState'[b] = "none" => browserPromise' = 0]_vars
    /\ [][\A p \in Procs :
            (proc[p].pc # "c_browser" /\ proc'[p].pc = "c_browser")
               => /\ proc'[p].b = browserPromise'
                  /\ browserState'[proc'[p].b] = "pending"]_vars

\* the request handler l is working on came without a required field
LacksField(l) ==
    LET route == IF l.op = "invalid" THEN l.ret ELSE l.op
    IN /\ route \in FieldRoutes
       /\ \/ l.sid \in Absent
          \/ route = "create" /\ l.phone \in Absent
          \/ route = "verify" /\ l.otp \in Absent

\* C14: a create, verify, get-session or close-session request that lacks a
\* required field is answered at once with status 400 and success=false,
\* and the session table, the browser handle, the launches, the contexts
\* and the tabs are as they were.
C14_MissingFieldRejected ==
    [][\A p \in Procs :
          (proc[p].pc = "idle" /\ proc'[p].pc # "idle" /\ LacksField(proc'[p]))
             => /\ proc'[p].pc = "done"
                /\ proc'[p].result.http = 400
                /\ proc'[p].result.success = FALSE
                /\ UNCHANGED <<browserPromise, browserState, contexts,
                               pageOpen, userSessions, order>>]_vars

\* C14 witness: a create request for a known id without a phone has been
\* answered 400 while the table holds a session and a browser is open
C14_Witness ==
    \E p \in Procs :
        /\ proc[p].pc = "done" /\ proc[p].op = "invalid"
        /\ proc[p].ret = "create" /\ proc[p].sid \in SessionIds
        /\ proc[p].phone \in Absent
        /\ proc[p].result.http = 400
        /\ Has(proc[p].sid) /\ browserPromise # 0

\* handler p is suspended inside closeSession
InClose(l) == l.pc \in {"cs_page", "cs_ctx"}

\* this step is the tail of a closeSession call of handler p: the delete
\* and the return
Returning(p) ==
    /\ InClose(proc[p])
    /\ ~InClose(proc'[p]) \/ proc'[p].sid # proc[p].sid

\* C15: the delete at the end of a closeSession(id) call removes only the
\* session the call read and released, never a newer session stored for
\* the id meanwhile (which would leave that session's open tab and context
\* without a table entry and without an operation that holds them).
C15_DeleteOnlyOwnSession ==
    [][\A p \in Procs :
          (Returning(p) /\ Has(proc[p].sid))
             => userSessions[proc[p].sid].page = proc[p].s]_vars

\* C16: a verifySessionOTP call closes and removes only the session it read
\* from the table at its start (sess): the tab its closeSession closes is
\* that session's, and the entry its closeSession deletes holds that
\* session, also when a createSession replaced the entry meanwhile.
C16_VerifyClosesOnlyItsSession ==
    /\ [](\A p \in Procs :
            (proc[p].op = "verify" /\ InClose(proc[p]))
               => proc[p].s = proc[p].sess)
    /\ [][\A p \in Procs :
            (proc[p].op = "verify" /\ Returning(p) /\ Has(proc[p].sid))
               => userSessions[proc[p].sid].page = proc[p].sess]_vars

\* C17: a step of cleanupOldSessions that deletes from the table leaves
\* every session whose age at the start of the run was at most the maximum
\* session age in the table, with its tab, OTP, timestamps and status
\* unchanged.
C17_SweepKeepsYoung ==
    [][\A p \in Procs :
          (proc[p].op = "cleanup" /\ Returning(p))
             => \A id \in SessionIds :
                   (/\ Has(id)
                    /\ proc[p].now0 - userSessions[id].createdAt
                          <= SESSION_MAX_AGE_MS)
                      => userSessions'[id] = userSessions[id]]_vars

\* the browsers that are launched and not closed
Running == {b \in Launches : browserState[b] = "open"}

\* C18: at most one browser is launched and not closed, and the shared
\* handle refers to it; the step of resetBrowser that sets the handle to
\* null finds it null or referring to the browser that call closed.
C18_OneBrowserOwnedByHandle ==
    /\ [](/\ Cardinality(Running) <= 1
          /\ \A b \in Running : browserPromise = b)
    /\ [][\A p \in Procs :
            (proc[p].pc = "r_close" /\ proc'[p].pc # "r_close")
               => browserPromise \in {0, proc[p].b}]_vars

\* C19: after a failed createSession(id, phone) for an id that had a session
\* before the call (prior), the table holds no entry for the id: the prior
\* session is not restored.
C19_NoEntryAfterFailedCreate ==
    \A p \in Procs :
        (Done(p, "create") /\ proc[p].result.http = 500 /\ proc[p].prior)
            => ~Has(proc[p].sid)

====
